---- MODULE Spec2Model ----
(***************************************************************************)
(* The libffi build of truffle/mx.truffle/mx_truffle.py:                   *)
(*   LibffiBuilderProject  (the project: delegate choice, patch resolver)  *)
(*   LibffiBuildTask       (needsBuild / newestOutput / build / clean)     *)
(*                                                                         *)
(* The filesystem is modelled by three parts: the patch root (a directory  *)
(* of patch directories, read only), the source archive (one mtime) and    *)
(* the output directory out_dir (the extracted tree and the results of the *)
(* delegate build).  A patch file is the pair <<directory, name>>.         *)
(***************************************************************************)
EXTENDS Integers, Sequences, FiniteSets, TLC

\* ---------------------------------------------------------------- bounds
\* Largest value of the clock that stamps modification times.
MaxTime == 3
\* Patch files of one directory are named 1..MaxPatches.
MaxPatches == 2

\* ------------------------------------------------------------- platforms
\* (mx.get_os(), mx.get_arch()) pairs a task may be constructed for.
Platforms == { <<"linux", "amd64">>, <<"darwin", "amd64">>, <<"windows", "amd64">> }

\* '{}-{}'.format(mx.get_os(), mx.get_arch())
os_arch_name(o, a) == o \o "-" \o a

\* Directory names that may occur in the patch root.
DirNames == {"common", "others", "linux-amd64", "windows-amd64"}

PatchNames == 1..MaxPatches

\* A directory listing: os.listdir returns the entries in arbitrary order,
\* each entry once.
Listings ==
    { s \in UNION { [1..n -> PatchNames] : n \in 0..MaxPatches } :
        \A i, j \in 1..Len(s) : i # j => s[i] # s[j] }

Absent == [kind |-> "absent", list |-> <<>>]
NotDir == [kind |-> "file", list |-> <<>>]
Dir(l) == [kind |-> "dir", list |-> l]

\* What a name of the patch root can be: nothing, a plain file, a directory.
Entries == {Absent, NotDir} \cup { Dir(l) : l \in Listings }

\* -------------------------------------------------- filesystem predicates
\* mx.join(self.source_dirs()[0], d): paths are kept relative to the root.
patch_dir(d) == d

\* os.path.isdir
isdir(root, d) == d \in DOMAIN root /\ root[d].kind = "dir"

\* mx.exists
exists(root, d) == d \in DOMAIN root /\ root[d].kind # "absent"

\* ------------------------------------------------------- patch resolver
\* get_patches: the files of patchdir in listing order, nothing when
\* patchdir is not a directory.
get_patches(root, patchdir) ==
    IF isdir(root, patchdir)
    THEN [i \in 1..Len(root[patchdir].list) |-> <<patchdir, root[patchdir].list[i]>>]
    ELSE <<>>

\* Mutant: the generic patches are appended whether or not the platform
\* directory exists.
patches_both_tiers(root, o, a) ==
    get_patches(root, patch_dir("common"))
        \o get_patches(root, patch_dir(os_arch_name(o, a)))
        \o get_patches(root, patch_dir("others"))

\* Mutant: the platform tier is put in front of the common tier.
patches_platform_first(root, o, a) ==
    (IF exists(root, patch_dir(os_arch_name(o, a)))
     THEN get_patches(root, patch_dir(os_arch_name(o, a)))
     ELSE get_patches(root, patch_dir("others")))
        \o get_patches(root, patch_dir("common"))

\* Mutant: without the directory 'common' the resolver gives up.
patches_requiring_common(root, o, a) ==
    IF isdir(root, patch_dir("common"))
    THEN get_patches(root, patch_dir("common"))
            \o (IF exists(root, patch_dir(os_arch_name(o, a)))
                THEN get_patches(root, patch_dir(os_arch_name(o, a)))
                ELSE get_patches(root, patch_dir("others")))
    ELSE <<>>

\* Mutant: a platform directory without patches counts as missing.
patches_others_when_empty(root, o, a) ==
    get_patches(root, patch_dir("common"))
        \o (IF get_patches(root, patch_dir(os_arch_name(o, a))) # <<>>
            THEN get_patches(root, patch_dir(os_arch_name(o, a)))
            ELSE get_patches(root, patch_dir("others")))

\* LibffiBuilderProject.patches
patches(root, o, a) ==
    LET os_arch_dir == patch_dir(os_arch_name(o, a))
    IN  get_patches(root, patch_dir("common"))
            \o (IF exists(root, os_arch_dir)
                THEN get_patches(root, os_arch_dir)
                ELSE get_patches(root, patch_dir("others")))


\* ------------------------------------------------------------ timestamps
\* mx.TimeStampFile: a path and the modification time read when the object
\* was made (0: the file did not exist).  NoTS stands for Python's None.
TSF(p, t) == [kind |-> "file", path |-> p, timestamp |-> t]
NoTS == [kind |-> "none", path |-> <<"", "">>, timestamp |-> 0]

\* TimeStampFile.isOlderThan(TimeStampFile): a file without a timestamp is
\* older than anything; nothing is older than a file that does not exist.
isOlderThan(self, arg) ==
    IF self.timestamp = 0 THEN TRUE
    ELSE IF arg.timestamp = 0 THEN FALSE
    ELSE arg.timestamp > self.timestamp

\* TimeStampFile.newest(paths): the existing file with the most recent
\* modification time, the first such in the order of paths; None when no
\* path exists.  mt[p] is the mtime of p, 0 when p does not exist.
RECURSIVE newest_from(_, _, _)
newest_from(paths, mt, ts) ==
    IF paths = <<>> THEN ts
    ELSE LET p == Head(paths)
             nxt == IF mt[p] = 0 THEN ts
                    ELSE IF ts.kind = "none" THEN TSF(p, mt[p])
                    ELSE IF mt[p] > ts.timestamp THEN TSF(p, mt[p])
                    ELSE ts
         IN  newest_from(Tail(paths), mt, nxt)

newest(paths, mt) == newest_from(paths, mt, NoTS)

\* ----------------------------------------------------- delegate projects
\* The results of the libtool delegate, as <<directory, file>> below its
\* output directory out_dir/libffi-build.
LibtoolResults ==
    << <<".libs", "libffi.a">>, <<"include", "ffi.h">>, <<"include", "ffitarget.h">> >>

\* The one result of the windows delegate: the static library 'ffi' of the
\* DefaultNativeProject, below out_dir.
WindowsResults == << <<"amd64", "ffi.lib">> >>

\* Mutant: the constructor tests for the name Python gives to windows.
delegate_kind_win32(o) == IF o = "win32" THEN "DefaultNativeProject" ELSE "LibtoolNativeProject"

\* The delegate is chosen once, in the constructor, from mx.get_os().
delegate_kind(o) == IF o = "windows" THEN "DefaultNativeProject" ELSE "LibtoolNativeProject"

\* The results of delegate d, a delegate_kind.
results_of(d) == IF d = "DefaultNativeProject" THEN WindowsResults ELSE LibtoolResults

ResultSet(d) == { results_of(d)[i] : i \in 1..Len(results_of(d)) }

\* The task of the libtool delegate reports the newest of its results, and
\* the first missing result (as a TimeStampFile that does not exist) when
\* one is missing; the windows delegate reports TimeStampFile.newest of its
\* target.
RECURSIVE libtool_newest(_, _, _)
libtool_newest(rs, outs, ts) ==
    IF rs = <<>> THEN ts
    ELSE LET r == Head(rs)
         IN  IF outs[r] = 0 THEN TSF(r, 0)
             ELSE libtool_newest(Tail(rs), outs,
                     IF ts.kind = "none" \/ outs[r] > ts.timestamp
                     THEN TSF(r, outs[r]) ELSE ts)

delegate_newestOutput(d, outs) ==
    IF d = "DefaultNativeProject"
    THEN newest(WindowsResults, outs)
    ELSE libtool_newest(LibtoolResults, outs, NoTS)


\* ---------------------------------------------------- archivable results
\* mx.basename of a path <<directory, file>>: the file, in no directory.
basename(path) == <<"", path[2]>>

\* A query for archivable results ends normally or in an assertion failure,
\* after the items it has yielded.
Yielded(items, status) == [items |-> items, status |-> status]

\* mx.NativeProject.getArchivableResults(use_relpath): every result of rs
\* with its path in the archive, which is the path below the output
\* directory (use_relpath) or the basename.
native_getArchivableResults(rs, use_relpath) ==
    [i \in 1..Len(rs) |-> <<rs[i], IF use_relpath THEN rs[i] ELSE basename(rs[i])>>]

\* Mutant: the results of .libs keep their place below .libs in the archive.
RECURSIVE libtool_yield_keeping_objdir(_, _, _)
libtool_yield_keeping_objdir(pairs, single, done) ==
    IF pairs = <<>> THEN Yielded(done, "ok")
    ELSE LET file_path == Head(pairs)[1]
             item == <<file_path, Head(pairs)[2]>>
         IN  IF single
             THEN Yielded(Append(done, item), IF file_path[1] = ".libs" THEN "ok" ELSE "assert")
             ELSE libtool_yield_keeping_objdir(Tail(pairs), single, Append(done, item))

\* Mutant: with single the generator goes on after its first result.
RECURSIVE libtool_yield_without_break(_, _, _)
libtool_yield_without_break(pairs, single, done) ==
    IF pairs = <<>> THEN Yielded(done, "ok")
    ELSE LET file_path == Head(pairs)[1]
             archive_path == Head(pairs)[2]
             path_in_lt_objdir == file_path[1] = ".libs"
             item == <<file_path,
                       IF path_in_lt_objdir THEN basename(archive_path) ELSE archive_path>>
         IN  IF single /\ ~path_in_lt_objdir
             THEN Yielded(Append(done, item), "assert")
             ELSE libtool_yield_without_break(Tail(pairs), single, Append(done, item))

\* LibtoolNativeProject.getArchivableResults over the results rs: a result
\* of the directory .libs is archived under its basename; with single the
\* generator stops after the first result, which must be from .libs.
RECURSIVE libtool_yield(_, _, _)
libtool_yield(pairs, single, done) ==
    IF pairs = <<>> THEN Yielded(done, "ok")
    ELSE LET file_path == Head(pairs)[1]
             archive_path == Head(pairs)[2]
             path_in_lt_objdir == file_path[1] = ".libs"
             item == <<file_path,
                       IF path_in_lt_objdir THEN basename(archive_path) ELSE archive_path>>
         IN  IF single
             THEN Yielded(Append(done, item), IF path_in_lt_objdir THEN "ok" ELSE "assert")
             ELSE libtool_yield(Tail(pairs), single, Append(done, item))

libtool_getArchivableResults(rs, use_relpath, single) ==
    libtool_yield(native_getArchivableResults(rs, use_relpath), single, <<>>)

\* next(getArchivableResults(...)): the generator is run up to its first
\* yield and left suspended there; the statements after the yield, the
\* assertion among them, are not reached.
libtool_next(rs, use_relpath, single) ==
    Yielded(<< libtool_getArchivableResults(rs, use_relpath, FALSE).items[1] >>, "suspended")

\* mx_native.DefaultNativeProject.getArchivableResults: the target, found
\* in the directory of the architecture and archived under its own name;
\* the project declares no headers.
default_getArchivableResults(use_relpath, single) ==
    Yielded(<< <<WindowsResults[1], basename(WindowsResults[1])>> >>, "ok")

delegate_getArchivableResults(d, use_relpath, single) ==
    IF d = "DefaultNativeProject"
    THEN default_getArchivableResults(use_relpath, single)
    ELSE libtool_getArchivableResults(LibtoolResults, use_relpath, single)

\* The libraries and include directories the delegate offers to projects
\* that link against libffi: the first archivable result and the directory
\* include of the output directory for libtool, the target and the include
\* directory of the extracted sources for windows.
delegate_libs(d) ==
    IF d = "DefaultNativeProject"
    THEN << WindowsResults[1] >>
    ELSE << libtool_next(LibtoolResults, TRUE, TRUE).items[1][1] >>

delegate_include_dirs(d) ==
    IF d = "DefaultNativeProject"
    THEN << <<"libffi-3.4.6", "include">> >>
    ELSE << <<"", "include">> >>

\* Mutant: the arguments of the query are not passed on to the delegate.
getArchivableResults_default_args(d, use_relpath, single) ==
    delegate_getArchivableResults(d, TRUE, FALSE)

\* LibffiBuilderProject.getArchivableResults, and the two attributes the
\* constructor copies from the delegate.
getArchivableResults(d, use_relpath, single) ==
    delegate_getArchivableResults(d, use_relpath, single)

libs(d) == delegate_libs(d)

include_dirs(d) == delegate_include_dirs(d)

\* ------------------------------------------------------- configure step
\* One argument of configure: a bare flag, or a variable with its value.
Flag(name) == [flag |-> name, value |-> <<>>]
Setting(name, value) == [flag |-> name, value |-> value]

\* Mutant: -m64 is passed on every platform.
cflags_always_m64(o) == <<"-g", "-O3", "-m64">>

\* ['-g', '-O3'] + (['-m64'] if mx.get_os() == 'solaris' else [])
cflags(o) == <<"-g", "-O3">> \o (IF o = "solaris" THEN <<"-m64">> ELSE <<>>)

configure_args(o) ==
    << Flag("--disable-dependency-tracking"),
       Flag("--disable-shared"),
       Flag("--with-pic"),
       Setting("CFLAGS", cflags(o)),
       Setting("CPPFLAGS", <<"-DNO_JAVA_RAW_API">>) >>

\* self.delegate.buildEnv, which only the libtool delegate is given.
buildEnv(d, o) ==
    IF d = "DefaultNativeProject"
    THEN [SOURCES |-> "", OUTPUT |-> "", CONFIGURE_ARGS |-> <<>>]
    ELSE [SOURCES |-> "libffi-3.4.6", OUTPUT |-> "libffi-build",
          CONFIGURE_ARGS |-> configure_args(o)]


\* ------------------------------------------------------------- the state
VARIABLES
    os,       \* mx.get_os() of the task, fixed at construction
    arch,     \* mx.get_arch() of the task, fixed at construction
    delegate, \* self.delegate: the kind of project the constructor made
    root,     \* the patch root: directory name -> entry
    mtime,    \* modification time of every patch file <<directory, name>>
    srcTime,  \* modification time of the source archive
    clock,    \* the time that stamps files written now
    outDir,   \* self.subject.out_dir: see EmptyOutDir
    pc,       \* where a build() call in flight stands; "idle" between calls
    todo,     \* the patches the loop of build() has still to apply
    log,      \* the steps executed by the last build() call that got past
              \* its assertion
    ret,      \* how the last call of the task ended
    resolved, \* the last value read from the patches property on its own
    archived, \* the last value read from the project on its own:
              \* getArchivableResults(), libs or the configure arguments
    parked,   \* a second task with its own out_dir, while the other one runs
    cur       \* the task that is running: 1 or 2

vars == <<os, arch, delegate, root, mtime, srcTime, clock, outDir, pc, todo, log, ret,
          resolved, archived, parked, cur>>

\* All patch files a root can hold.
PatchPaths == DirNames \X PatchNames

\* The patch files that exist in r.
FilesOf(r) ==
    { p \in PatchPaths : r[p[1]].kind = "dir"
                          /\ \E i \in 1..Len(r[p[1]].list) : r[p[1]].list[i] = p[2] }

\* out_dir when it does not exist: no tree, no patch applied, no result.
EmptyOutDir(d) ==
    [exists |-> FALSE, tree |-> "none", applied |-> <<>>,
     outputs |-> [r \in ResultSet(d) |-> 0]]

\* No archivable results have been asked for.
NoQuery == [args |-> <<TRUE, FALSE>>, items |-> <<>>, status |-> "none"]

NoRet == [op |-> "none", status |-> "none", needed |-> FALSE, reason |-> ""]
Ret(o, s) == [op |-> o, status |-> s, needed |-> FALSE, reason |-> ""]

\* ------------------------------------------------------------ needsBuild
\* The inherited check (mx.AbstractNativeBuildTask.needsBuild): a build is
\* needed when the task has no newest output.  It is given the newest input
\* and the task's own newestOutput().
generic_needsBuild(newestInput, output) ==
    IF output.kind = "none"
    THEN [needed |-> TRUE, reason |-> "None"]
    ELSE [needed |-> FALSE, reason |-> "unimplemented"]

\* Mutant: the delegate's answer is passed on as it is.
newestOutput_unchecked(d, outs) == delegate_newestOutput(d, outs)

\* Mutant: the test for existence is the wrong way round.
newestOutput_dropping_existing(d, outs) ==
    LET output == delegate_newestOutput(d, outs)
    IN  IF output.kind # "none" /\ outs[output.path] # 0 THEN NoTS ELSE output

\* LibffiBuildTask.newestOutput: an output that does not exist is no output.
newestOutput(d, outs) ==
    LET output == delegate_newestOutput(d, outs)
    IN  IF output.kind # "none" /\ outs[output.path] = 0 THEN NoTS ELSE output

\* Mutant: the patches are not looked at.
needsBuild_generic_only(o, a, d, r, mt, outs, newestInput) ==
    LET g == generic_needsBuild(newestInput, newestOutput(d, outs))
    IN  IF g.needed
        THEN [op |-> "needsBuild", status |-> "ok", needed |-> TRUE, reason |-> g.reason]
        ELSE [op |-> "needsBuild", status |-> "ok", needed |-> FALSE,
              reason |-> "all files are up to date"]

\* Mutant: the answer of the inherited check is not returned at once.
needsBuild_without_early_return(o, a, d, r, mt, outs, newestInput) ==
    LET g == generic_needsBuild(newestInput, newestOutput(d, outs))
        output == newestOutput(d, outs)
        newest_patch == newest(patches(r, o, a), mt)
    IN  IF newest_patch.kind # "none"
        THEN IF output.kind = "none"
             THEN [op |-> "needsBuild", status |-> "error", needed |-> FALSE, reason |-> ""]
             ELSE IF isOlderThan(output, newest_patch)
             THEN [op |-> "needsBuild", status |-> "ok", needed |-> TRUE,
                   reason |-> "is older than"]
             ELSE [op |-> "needsBuild", status |-> "ok", needed |-> g.needed,
                   reason |-> IF g.needed THEN g.reason ELSE "all files are up to date"]
        ELSE [op |-> "needsBuild", status |-> "ok", needed |-> g.needed,
              reason |-> IF g.needed THEN g.reason ELSE "all files are up to date"]

\* Mutant: the patches are looked at first, and without a patch nothing
\* else is.
needsBuild_patches_first(o, a, d, r, mt, outs, newestInput) ==
    LET g == generic_needsBuild(newestInput, newestOutput(d, outs))
        output == newestOutput(d, outs)
        newest_patch == newest(patches(r, o, a), mt)
    IN  IF newest_patch.kind = "none"
        THEN [op |-> "needsBuild", status |-> "ok", needed |-> FALSE,
              reason |-> "all files are up to date"]
        ELSE IF g.needed
        THEN [op |-> "needsBuild", status |-> "ok", needed |-> TRUE, reason |-> g.reason]
        ELSE IF output.kind # "none" /\ isOlderThan(output, newest_patch)
        THEN [op |-> "needsBuild", status |-> "ok", needed |-> TRUE,
              reason |-> "is older than"]
        ELSE [op |-> "needsBuild", status |-> "ok", needed |-> FALSE,
              reason |-> "all files are up to date"]

\* Mutant: a task whose last call was a build that returned normally
\* answers from that memory.
needsBuild_trusting_last_build(o, a, d, r, mt, outs, newestInput) ==
    LET g == generic_needsBuild(newestInput, newestOutput(d, outs))
        output == newestOutput(d, outs)
        newest_patch == newest(patches(r, o, a), mt)
    IN  IF ret.op = "build" /\ ret.status = "ok"
        THEN [op |-> "needsBuild", status |-> "ok", needed |-> FALSE,
              reason |-> "all files are up to date"]
        ELSE IF g.needed
        THEN [op |-> "needsBuild", status |-> "ok", needed |-> TRUE, reason |-> g.reason]
        ELSE IF newest_patch.kind # "none" /\ output.kind # "none"
                 /\ isOlderThan(output, newest_patch)
        THEN [op |-> "needsBuild", status |-> "ok", needed |-> TRUE,
              reason |-> "is older than"]
        ELSE [op |-> "needsBuild", status |-> "ok", needed |-> FALSE,
              reason |-> "all files are up to date"]

\* Mutant: the newest patch is compared without asking whether there is
\* one.
needsBuild_unguarded_patch(o, a, d, r, mt, outs, newestInput) ==
    LET g == generic_needsBuild(newestInput, newestOutput(d, outs))
        output == newestOutput(d, outs)
        newest_patch == newest(patches(r, o, a), mt)
    IN  IF g.needed
        THEN [op |-> "needsBuild", status |-> "ok", needed |-> TRUE, reason |-> g.reason]
        ELSE IF newest_patch.kind = "none" \/ output.kind = "none"
        THEN [op |-> "needsBuild", status |-> "error", needed |-> FALSE, reason |-> ""]
        ELSE IF isOlderThan(output, newest_patch)
        THEN [op |-> "needsBuild", status |-> "ok", needed |-> TRUE,
              reason |-> "is older than"]
        ELSE [op |-> "needsBuild", status |-> "ok", needed |-> FALSE,
              reason |-> "all files are up to date"]

\* Mutant: the newest patch is looked for in the platform directory and in
\* 'others' alike.
needsBuild_watching_both_tiers(o, a, d, r, mt, outs, newestInput) ==
    LET g == generic_needsBuild(newestInput, newestOutput(d, outs))
        output == newestOutput(d, outs)
        newest_patch == newest(patches_both_tiers(r, o, a), mt)
    IN  IF g.needed
        THEN [op |-> "needsBuild", status |-> "ok", needed |-> TRUE, reason |-> g.reason]
        ELSE IF newest_patch.kind # "none" /\ output.kind # "none"
                 /\ isOlderThan(output, newest_patch)
        THEN [op |-> "needsBuild", status |-> "ok", needed |-> TRUE,
              reason |-> "is older than"]
        ELSE [op |-> "needsBuild", status |-> "ok", needed |-> FALSE,
              reason |-> "all files are up to date"]

\* LibffiBuildTask.needsBuild.  status "error" stands for the exception of
\* calling isOlderThan on None.
needsBuild(o, a, d, r, mt, outs, newestInput) ==
    LET g == generic_needsBuild(newestInput, newestOutput(d, outs))
        output == newestOutput(d, outs)
        newest_patch == newest(patches(r, o, a), mt)
    IN  IF g.needed
        THEN [op |-> "needsBuild", status |-> "ok", needed |-> TRUE, reason |-> g.reason]
        ELSE IF newest_patch.kind # "none"
        THEN IF output.kind = "none"
             THEN [op |-> "needsBuild", status |-> "error", needed |-> FALSE, reason |-> ""]
             ELSE IF isOlderThan(output, newest_patch)
             THEN [op |-> "needsBuild", status |-> "ok", needed |-> TRUE,
                   reason |-> "is older than"]
             ELSE [op |-> "needsBuild", status |-> "ok", needed |-> FALSE,
                   reason |-> "all files are up to date"]
        ELSE [op |-> "needsBuild", status |-> "ok", needed |-> FALSE,
              reason |-> "all files are up to date"]


\* ----------------------------------------------------------------- Init
\* A patch root with the given entries; every other name is absent.
RootOf(common, linux, windows, others) ==
    [d \in DirNames |->
        CASE d = "common" -> common
          [] d = "linux-amd64" -> linux
          [] d = "windows-amd64" -> windows
          [] OTHER -> others]

\* The patch roots the task is run against.
TaskRoots ==
    { RootOf(Absent, Absent, Absent, Absent),
      RootOf(Dir(<<1>>), Dir(<<2>>), Absent, Dir(<<1>>)),
      RootOf(Dir(<<2, 1>>), Dir(<<>>), Absent, Dir(<<1>>)),
      RootOf(Absent, NotDir, Dir(<<1>>), Dir(<<2>>)),
      RootOf(Dir(<<1>>), Absent, Absent, Absent) }

InitTask ==
    /\ pc = "idle"
    /\ todo = <<>>
    /\ log = <<>>
    /\ ret = NoRet
    /\ resolved = <<>>
    /\ archived = NoQuery
    /\ outDir = EmptyOutDir(delegate)
    /\ parked = [outDir |-> EmptyOutDir(delegate), pc |-> "idle", todo |-> <<>>,
                 log |-> <<>>, ret |-> NoRet]
    /\ cur = 1
    /\ mtime = [p \in PatchPaths |-> IF p \in FilesOf(root) THEN 1 ELSE 0]
    /\ srcTime = 1
    /\ clock = 1

Init ==
    /\ \E p \in Platforms : os = p[1] /\ arch = p[2]
    /\ delegate = delegate_kind(os)
    /\ root \in TaskRoots
    /\ InitTask

\* The newest input the scheduler hands to needsBuild: the source archive.
newestInput == TSF(<<"sources", "archive">>, srcTime)

NoPath == <<"", 0>>
Event(kind, path, ok) == <<kind, path, ok>>

config == <<os, arch, delegate, root>>
env == <<mtime, srcTime, clock>>
queries == <<resolved, archived>>

\* ----------------------------------------------------------- needsBuild
\* Mutant: a needsBuild() that asks for a build removes the stale out_dir.
needs_build_removing_stale ==
    /\ pc = "idle"
    /\ ret' = needsBuild(os, arch, delegate, root, mtime, outDir.outputs, newestInput)
    /\ outDir' = IF needsBuild(os, arch, delegate, root, mtime, outDir.outputs,
                               newestInput).needed
                 THEN EmptyOutDir(delegate) ELSE outDir
    /\ UNCHANGED <<config, env, pc, todo, log, queries, parked, cur>>

needs_build ==
    /\ pc = "idle"
    /\ ret' = needsBuild(os, arch, delegate, root, mtime, outDir.outputs, newestInput)
    /\ UNCHANGED <<config, env, outDir, pc, todo, log, queries, parked, cur>>

\* ---------------------------------------------------------------- clean
\* Mutant: rmtree without ignore_errors, which raises when out_dir is missing.
clean_strict ==
    /\ pc = "idle"
    /\ outDir' = EmptyOutDir(delegate)
    /\ ret' = Ret("clean", IF outDir.exists THEN "ok" ELSE "error")
    /\ UNCHANGED <<config, env, pc, todo, log, queries, parked, cur>>

\* Mutant: only the contents of out_dir are removed, the directory stays.
clean_contents_only ==
    /\ pc = "idle"
    /\ outDir' = [EmptyOutDir(delegate) EXCEPT !.exists = outDir.exists]
    /\ ret' = Ret("clean", "ok")
    /\ UNCHANGED <<config, env, pc, todo, log, queries, parked, cur>>

\* Mutant: the parent of out_dir is removed, and the directories of other
\* tasks with it.
clean_output_parent ==
    /\ pc = "idle"
    /\ outDir' = EmptyOutDir(delegate)
    /\ parked' = [parked EXCEPT !.outDir = EmptyOutDir(delegate)]
    /\ ret' = Ret("clean", "ok")
    /\ UNCHANGED <<config, env, pc, todo, log, queries, cur>>

\* mx.rmtree(out_dir, ignore_errors=True): nothing is left, and a directory
\* that does not exist is no error.
clean ==
    /\ pc = "idle"
    /\ outDir' = EmptyOutDir(delegate)
    /\ ret' = Ret("clean", "ok")
    /\ UNCHANGED <<config, env, pc, todo, log, queries, parked, cur>>

\* ---------------------------------------------------------------- build
\* Mutant: the assertion is compiled away.
build_guard_off(od) == TRUE

\* Mutant: the assertion looks for results, not for the directory.
build_guard_on_results(od) == \A r \in DOMAIN od.outputs : od.outputs[r] = 0

\* assert not mx.exists(self.subject.out_dir)
build_guard(od) == ~od.exists

\* Mutant: a build that finds out_dir in its way removes it before it
\* gives up.
build_enter_removing_stale ==
    /\ pc = "idle"
    /\ IF build_guard(outDir)
       THEN ret' = Ret("build", "running") /\ pc' = "extract" /\ log' = <<>>
                /\ outDir' = outDir
       ELSE ret' = Ret("build", "assert") /\ pc' = "idle" /\ log' = log
                /\ outDir' = EmptyOutDir(delegate)
    /\ UNCHANGED <<config, env, todo, queries, parked, cur>>

\* build() is entered: the assertion either ends the call or lets it go on
\* to the extraction.
build_enter ==
    /\ pc = "idle"
    /\ IF build_guard(outDir)
       THEN ret' = Ret("build", "running") /\ pc' = "extract" /\ log' = <<>>
       ELSE ret' = Ret("build", "assert") /\ pc' = "idle" /\ log' = log
    /\ UNCHANGED <<config, env, outDir, todo, queries, parked, cur>>

\* What an extraction that does not complete leaves: nothing, or a partly
\* written tree.
ExtractLeftovers(od) ==
    { od, [od EXCEPT !.exists = TRUE,
                     !.tree = IF od.tree = "none" THEN "partial" ELSE od.tree] }

\* What a patch application that does not complete leaves.
PatchLeftovers(od) == { od, [od EXCEPT !.tree = "corrupt"] }

\* What a delegate build that does not complete leaves: any of its results,
\* written now.
DelegateLeftovers(od) ==
    { [od EXCEPT !.outputs = [r \in DOMAIN od.outputs |->
                                 IF r \in S THEN clock ELSE od.outputs[r]]] :
        S \in SUBSET DOMAIN od.outputs }

\* Mutant: the patch loop is left out, the delegate builds the bare tree.
extract_skipping_patches ==
    /\ pc = "extract"
    /\ \/ /\ outDir' = [outDir EXCEPT !.exists = TRUE, !.tree = "full"]
          /\ log' = Append(log, Event("extract", NoPath, TRUE))
          /\ todo' = <<>>
          /\ pc' = "delegate"
          /\ UNCHANGED ret
       \/ /\ outDir' \in ExtractLeftovers(outDir)
          /\ log' = Append(log, Event("extract", NoPath, FALSE))
          /\ ret' = Ret("build", "failed")
          /\ pc' = "idle"
          /\ UNCHANGED todo
    /\ UNCHANGED <<config, env, queries, parked, cur>>

\* Mutant: the archive is moved into out_dir instead of being read.
extract_consuming_archive ==
    /\ pc = "extract"
    /\ \/ /\ outDir' = [outDir EXCEPT !.exists = TRUE, !.tree = "full"]
          /\ log' = Append(log, Event("extract", NoPath, TRUE))
          /\ todo' = patches(root, os, arch)
          /\ pc' = IF todo' = <<>> THEN "delegate" ELSE "patch"
          /\ srcTime' = 0
          /\ UNCHANGED ret
       \/ /\ outDir' \in ExtractLeftovers(outDir)
          /\ log' = Append(log, Event("extract", NoPath, FALSE))
          /\ ret' = Ret("build", "failed")
          /\ pc' = "idle"
          /\ UNCHANGED <<todo, srcTime>>
    /\ UNCHANGED <<config, mtime, clock, queries, parked, cur>>

\* mx.Extractor.create(...).extract(out_dir); on success the loop over the
\* patches property starts.
extract ==
    /\ pc = "extract"
    /\ \/ /\ outDir' = [outDir EXCEPT !.exists = TRUE, !.tree = "full"]
          /\ log' = Append(log, Event("extract", NoPath, TRUE))
          /\ todo' = patches(root, os, arch)
          /\ pc' = IF todo' = <<>> THEN "delegate" ELSE "patch"
          /\ UNCHANGED ret
       \/ /\ outDir' \in ExtractLeftovers(outDir)
          /\ log' = Append(log, Event("extract", NoPath, FALSE))
          /\ ret' = Ret("build", "failed")
          /\ pc' = "idle"
          /\ UNCHANGED todo
    /\ UNCHANGED <<config, env, queries, parked, cur>>

\* Mutant: the exit status of git apply is ignored.
apply_patch_ignoring_failure ==
    /\ pc = "patch"
    /\ todo # <<>>
    /\ \/ /\ outDir' = [outDir EXCEPT !.applied = Append(@, Head(todo))]
          /\ log' = Append(log, Event("patch", Head(todo), TRUE))
       \/ /\ outDir' \in PatchLeftovers(outDir)
          /\ log' = Append(log, Event("patch", Head(todo), FALSE))
    /\ todo' = Tail(todo)
    /\ pc' = IF todo' = <<>> THEN "delegate" ELSE "patch"
    /\ UNCHANGED <<config, env, ret, queries, parked, cur>>

\* Mutant: git apply is run twice on every patch.
apply_patch_twice ==
    /\ pc = "patch"
    /\ todo # <<>>
    /\ \/ /\ outDir' = [outDir EXCEPT !.applied = Append(Append(@, Head(todo)), Head(todo))]
          /\ log' = Append(Append(log, Event("patch", Head(todo), TRUE)),
                           Event("patch", Head(todo), TRUE))
          /\ todo' = Tail(todo)
          /\ pc' = IF todo' = <<>> THEN "delegate" ELSE "patch"
          /\ UNCHANGED ret
       \/ /\ outDir' \in PatchLeftovers(outDir)
          /\ log' = Append(log, Event("patch", Head(todo), FALSE))
          /\ todo' = <<>>
          /\ ret' = Ret("build", "failed")
          /\ pc' = "idle"
    /\ UNCHANGED <<config, env, queries, parked, cur>>

\* Mutant: a patch that fails to apply is tried a second time.
apply_patch_retrying ==
    /\ pc = "patch"
    /\ todo # <<>>
    /\ \/ /\ outDir' = [outDir EXCEPT !.applied = Append(@, Head(todo))]
          /\ log' = Append(log, Event("patch", Head(todo), TRUE))
          /\ todo' = Tail(todo)
          /\ pc' = IF todo' = <<>> THEN "delegate" ELSE "patch"
          /\ UNCHANGED ret
       \/ /\ outDir' \in PatchLeftovers(outDir)
          /\ log' = Append(log, Event("patch", Head(todo), FALSE))
          /\ IF log[Len(log)] = Event("patch", Head(todo), FALSE)
             THEN todo' = <<>> /\ ret' = Ret("build", "failed") /\ pc' = "idle"
             ELSE UNCHANGED <<todo, ret, pc>>
    /\ UNCHANGED <<config, env, queries, parked, cur>>

\* One turn of the loop: mx.run(git_apply + [patch]); a non-zero exit
\* aborts the call.
apply_patch ==
    /\ pc = "patch"
    /\ todo # <<>>
    /\ \/ /\ outDir' = [outDir EXCEPT !.applied = Append(@, Head(todo))]
          /\ log' = Append(log, Event("patch", Head(todo), TRUE))
          /\ todo' = Tail(todo)
          /\ pc' = IF todo' = <<>> THEN "delegate" ELSE "patch"
          /\ UNCHANGED ret
       \/ /\ outDir' \in PatchLeftovers(outDir)
          /\ log' = Append(log, Event("patch", Head(todo), FALSE))
          /\ todo' = <<>>
          /\ ret' = Ret("build", "failed")
          /\ pc' = "idle"
    /\ UNCHANGED <<config, env, queries, parked, cur>>

\* Mutant: build() returns normally whatever the delegate did.
delegate_build_swallowing_failure ==
    /\ pc = "delegate"
    /\ \/ /\ outDir' = [outDir EXCEPT !.outputs = [r \in DOMAIN @ |-> clock]]
          /\ log' = Append(log, Event("delegate", NoPath, TRUE))
       \/ /\ outDir' \in DelegateLeftovers(outDir)
          /\ log' = Append(log, Event("delegate", NoPath, FALSE))
    /\ ret' = Ret("build", "ok")
    /\ pc' = "idle"
    /\ UNCHANGED <<config, env, todo, queries, parked, cur>>

\* self.delegate.build(): all results are written, or the delegate fails
\* and build() fails with it.
delegate_build ==
    /\ pc = "delegate"
    /\ \/ /\ outDir' = [outDir EXCEPT !.outputs = [r \in DOMAIN @ |-> clock]]
          /\ log' = Append(log, Event("delegate", NoPath, TRUE))
          /\ ret' = Ret("build", "ok")
       \/ /\ outDir' \in DelegateLeftovers(outDir)
          /\ log' = Append(log, Event("delegate", NoPath, FALSE))
          /\ ret' = Ret("build", "failed")
    /\ pc' = "idle"
    /\ UNCHANGED <<config, env, todo, queries, parked, cur>>

\* The process running build() is killed in the middle of a step.
kill ==
    /\ pc \in {"extract", "patch", "delegate"}
    /\ outDir' \in (CASE pc = "extract" -> ExtractLeftovers(outDir)
                      [] pc = "patch" -> PatchLeftovers(outDir)
                      [] OTHER -> DelegateLeftovers(outDir))
    /\ log' = Append(log, Event("kill", NoPath, FALSE))
    /\ ret' = Ret("build", "killed")
    /\ pc' = "idle"
    /\ todo' = <<>>
    /\ UNCHANGED <<config, env, queries, parked, cur>>

\* ---------------------------------------------------------- environment
tick ==
    /\ pc = "idle"
    /\ clock < MaxTime
    /\ clock' = clock + 1
    /\ UNCHANGED <<config, mtime, srcTime, outDir, pc, todo, log, ret, queries, parked, cur>>

\* A patch file is written again by its author.
touch_patch ==
    /\ pc = "idle"
    /\ \E p \in FilesOf(root) :
          /\ mtime[p] # clock
          /\ mtime' = [mtime EXCEPT ![p] = clock]
    /\ UNCHANGED <<config, srcTime, clock, outDir, pc, todo, log, ret, queries, parked, cur>>

\* The source archive is fetched again.
touch_source ==
    /\ pc = "idle"
    /\ srcTime # clock
    /\ srcTime' = clock
    /\ UNCHANGED <<config, mtime, clock, outDir, pc, todo, log, ret, queries, parked, cur>>

Next ==
    \/ needs_build
    \/ clean
    \/ build_enter
    \/ extract
    \/ apply_patch
    \/ delegate_build
    \/ kill
    \/ tick
    \/ touch_patch
    \/ touch_source

Spec == Init /\ [][Next]_vars


\* ------------------------------------------- the resolver on its own
\* Every patch root over DirNames, for every platform.
InitResolve ==
    /\ \E p \in Platforms : os = p[1] /\ arch = p[2]
    /\ delegate = delegate_kind(os)
    /\ root \in [DirNames -> Entries]
    /\ InitTask

\* self.subject.patches is read and the generator is run to its end.
read_patches ==
    /\ pc = "idle"
    /\ ret.op = "none"
    /\ resolved' = patches(root, os, arch)
    /\ ret' = Ret("patches", "ok")
    /\ UNCHANGED <<config, env, outDir, pc, todo, log, archived, parked, cur>>

\* getArchivableResults(use_relpath, single) is called on the project and
\* the generator is run to its end.
read_results ==
    /\ pc = "idle"
    /\ ret.op = "none"
    /\ \E use_relpath, single \in BOOLEAN :
          LET y == getArchivableResults(delegate, use_relpath, single)
          IN  /\ archived' = [args |-> <<use_relpath, single>>, items |-> y.items,
                              status |-> y.status]
              /\ ret' = Ret("getArchivableResults", y.status)
    /\ UNCHANGED <<config, env, outDir, pc, todo, log, resolved, parked, cur>>

NextResolve == read_patches

SpecResolve == InitResolve /\ [][NextResolve]_vars


\* ---------------------------------------------- the project on its own
\* (mx.get_os(), mx.get_arch()) pairs a project may be constructed for.
ProjectPlatforms == Platforms \cup { <<"solaris", "sparcv9">>, <<"linux", "aarch64">> }

InitProject ==
    /\ \E p \in ProjectPlatforms : os = p[1] /\ arch = p[2]
    /\ delegate = delegate_kind(os)
    /\ root \in TaskRoots
    /\ InitTask

\* self.libs is read: the value the constructor took from the delegate,
\* which the libtool delegate takes from its generator with next().
read_libs ==
    /\ pc = "idle"
    /\ ret.op = "none"
    /\ archived' = [args |-> <<TRUE, TRUE>>, items |-> libs(delegate),
                    status |-> IF delegate = "DefaultNativeProject" THEN "ok"
                               ELSE libtool_next(LibtoolResults, TRUE, TRUE).status]
    /\ ret' = Ret("libs", "ok")
    /\ UNCHANGED <<config, env, outDir, pc, todo, log, resolved, parked, cur>>

\* The configure arguments of the delegate's build environment are read.
read_configure ==
    /\ pc = "idle"
    /\ ret.op = "none"
    /\ archived' = [args |-> <<TRUE, FALSE>>,
                    items |-> buildEnv(delegate, os).CONFIGURE_ARGS, status |-> "ok"]
    /\ ret' = Ret("buildEnv", "ok")
    /\ UNCHANGED <<config, env, outDir, pc, todo, log, resolved, parked, cur>>

NextProject ==
    \/ read_results
    \/ read_libs
    \/ read_configure

SpecProject == InitProject /\ [][NextProject]_vars


\* ------------------------------------------------ two tasks side by side
\* The task that is running, as the record that is kept of a parked task.
running == [outDir |-> outDir, pc |-> pc, todo |-> todo, log |-> log, ret |-> ret]

\* The scheduler lets the other task run: the two tasks change places, each
\* with its own out_dir and its own call in flight.
switch ==
    /\ outDir' = parked.outDir
    /\ pc' = parked.pc
    /\ todo' = parked.todo
    /\ log' = parked.log
    /\ ret' = parked.ret
    /\ parked' = running
    /\ cur' = 3 - cur
    /\ UNCHANGED <<config, env, queries>>

InitTwo ==
    /\ \E p \in Platforms : os = p[1] /\ arch = p[2]
    /\ delegate = delegate_kind(os)
    /\ root \in TaskRoots
    /\ InitTask

NextTwo ==
    \/ needs_build
    \/ clean
    \/ build_enter
    \/ extract
    \/ apply_patch
    \/ delegate_build
    \/ kill
    \/ switch

SpecTwo == InitTwo /\ [][NextTwo]_vars


\* ============================================================ properties
\* The files of directory d of the patch root, in listing order.
ListingOf(d) ==
    IF d \in DOMAIN root /\ root[d].kind = "dir"
    THEN [i \in 1..Len(root[d].list) |-> <<d, root[d].list[i]>>]
    ELSE <<>>

\* The name of the task's platform directory.
OwnDir == os_arch_name(os, arch)

OwnDirExists == OwnDir \in DOMAIN root /\ root[OwnDir].kind # "absent"

FromDir(seq, d) == SelectSeq(seq, LAMBDA p : p[1] = d)

\* C1 (patch tier exclusivity): the sequence read from the patches property
\* never holds both a file of the platform directory and a file of
\* 'others'; it is common + platform when the platform directory exists and
\* common + others when it does not.
C1_PatchTierExclusivity ==
    ret.op = "patches" =>
        /\ ~(FromDir(resolved, OwnDir) # <<>> /\ FromDir(resolved, "others") # <<>>)
        /\ OwnDirExists => resolved = ListingOf("common") \o ListingOf(OwnDir)
        /\ ~OwnDirExists => resolved = ListingOf("common") \o ListingOf("others")

\* Both tiers are populated and only the platform tier is in the result.
C1_Witness ==
    /\ ret.op = "patches"
    /\ ListingOf(OwnDir) # <<>>
    /\ ListingOf("others") # <<>>
    /\ ListingOf("common") # <<>>
    /\ FromDir(resolved, OwnDir) = ListingOf(OwnDir)
    /\ FromDir(resolved, "others") = <<>>

\* The patch root of the end-to-end scenario: common/1, linux-amd64/2,
\* others/1 and nothing else.
ScenarioRoot == RootOf(Dir(<<1>>), Dir(<<2>>), Absent, Dir(<<1>>))

\* C2 (resolution order): every common patch precedes every patch of the
\* platform tier, the patches of one directory come in its listing order,
\* and the scenario root resolves to [common/1, linux-amd64/2] for
\* (linux, amd64) and to [common/1, others/1] for (darwin, amd64).
C2_ResolutionOrder ==
    ret.op = "patches" =>
        /\ \A i, j \in 1..Len(resolved) :
              (resolved[i][1] = "common" /\ resolved[j][1] # "common") => i < j
        /\ \A d \in DirNames \cup {OwnDir} :
              FromDir(resolved, d) \in {<<>>, ListingOf(d)}
        /\ (root = ScenarioRoot /\ os = "linux")
              => resolved = << <<"common", 1>>, <<"linux-amd64", 2>> >>
        /\ (root = ScenarioRoot /\ os = "darwin")
              => resolved = << <<"common", 1>>, <<"others", 1>> >>

\* Two common patches in the order 2, 1 followed by two generic patches.
C2_Witness ==
    /\ ret.op = "patches"
    /\ os = "darwin"
    /\ root["common"] = Dir(<<2, 1>>)
    /\ resolved = << <<"common", 2>>, <<"common", 1>>, <<"others", 1>>, <<"others", 2>> >>

\* A step of the task that enters build(): the task is idle, the call is a
\* build call, and the environment does not move.
BuildCalled == pc = "idle" /\ ret'.op = "build" /\ env' = env

\* C3 (staleness guard): a build() entered while out_dir exists ends at
\* once with the assertion failure; no step of the pipeline runs and out_dir
\* is what it was.
C3_StalenessGuard ==
    [][(BuildCalled /\ outDir.exists)
          => (ret'.status = "assert" /\ pc' = "idle" /\ outDir' = outDir
              /\ log' = log /\ todo' = todo)]_vars

\* A build rejected over the directory a killed build left.
C3_Witness ==
    /\ ret = Ret("build", "assert")
    /\ outDir.exists
    /\ log # <<>>
    /\ log[Len(log)][1] = "kill"

\* The steps of a build() that runs to its end with nothing failing.
FullPipeline ==
    LET ps == patches(root, os, arch)
    IN  << Event("extract", NoPath, TRUE) >>
            \o [i \in 1..Len(ps) |-> Event("patch", ps[i], TRUE)]
            \o << Event("delegate", NoPath, TRUE) >>

\* The same step, failed or cut short by a kill.
Unfinished(e) == { Event(e[1], e[2], FALSE), Event("kill", NoPath, FALSE) }

\* Where the task stands, read from out_dir and the last build call.
Phase ==
    IF ~outDir.exists THEN "Unbuilt"
    ELSE IF pc = "patch" /\ outDir.applied = <<>> THEN "Staged"
    ELSE IF pc = "patch" THEN "Patching"
    ELSE IF pc = "delegate" THEN "Patched"
    ELSE IF log # <<>> /\ log[Len(log)] = Event("delegate", NoPath, TRUE) THEN "Built"
    ELSE "Failed"

\* C4 (pipeline ordering): the steps of a build() call are a prefix of
\* extract, patch 1 .. patch n in resolver order, delegate build, the last
\* of them possibly failed; the delegate runs only after all patches, and a
\* build that returns normally has run them all.
C4_PipelineOrdering ==
    LET full == FullPipeline
    IN  /\ Len(log) <= Len(full)
        /\ \A i \in 1..Len(log) :
              \/ log[i] = full[i]
              \/ i = Len(log) /\ pc = "idle" /\ log[i] \in Unfinished(full[i])
        /\ pc = "extract" => log = <<>>
        /\ pc = "patch" => (Len(log) \in 1..(Len(full) - 2) /\ todo # <<>>)
        /\ pc = "delegate" => Len(log) = Len(full) - 1
        /\ pc # "idle" => log = SubSeq(full, 1, Len(log))
        /\ (ret.op = "build" /\ ret.status = "ok") => (log = full /\ Phase = "Built")
        /\ outDir.applied = SubSeq(patches(root, os, arch), 1, Len(outDir.applied))

\* A build with two or more patches has run to its end.
C4_Witness ==
    /\ ret = Ret("build", "ok")
    /\ Len(log) >= 4
    /\ Len(outDir.applied) >= 2
    /\ Phase = "Built"


LastEvent == log[Len(log)]

CleanCalled == pc = "idle" /\ ret'.op = "clean" /\ env' = env

\* C5 (patch failure aborts the build): once a patch has failed, the call is
\* over and has failed, no later patch was applied and the delegate was not
\* invoked, no result exists, out_dir exists so that a retry is rejected by
\* the assertion, and out_dir stops existing only by a clean.
C5_PatchFailureAborts ==
    /\ [](\A i \in 1..Len(log) :
            (log[i][1] = "patch" /\ log[i][3] = FALSE) =>
                /\ i = Len(log)
                /\ pc = "idle"
                /\ ret.op = "build" => ret.status \in {"failed", "assert"}
                /\ outDir.exists =>
                      /\ \A r \in DOMAIN outDir.outputs : outDir.outputs[r] = 0
                      /\ outDir.applied = [j \in 1..(i - 2) |-> log[j + 1][2]]
                      /\ Phase = "Failed"
                      /\ ~build_guard(outDir)
                /\ (ret.op = "build" /\ ret.status = "failed") => outDir.exists)
    /\ [][(outDir.exists /\ ~outDir'.exists) => CleanCalled]_vars
    /\ [][(log # <<>> /\ LastEvent[1] = "patch" /\ LastEvent[3] = FALSE
           /\ outDir.exists /\ BuildCalled)
             => (ret'.status = "assert" /\ outDir' = outDir /\ pc' = "idle")]_vars

\* The second patch of two has failed.
C5_Witness ==
    /\ ret = Ret("build", "failed")
    /\ Len(log) = 3
    /\ LastEvent[1] = "patch"
    /\ LastEvent[3] = FALSE
    /\ Len(outDir.applied) = 1

\* C6 (delegated toolchain failure): when the delegate build fails, build()
\* fails and the task is not Built; build() returns normally only when the
\* delegate build has succeeded, and then every result exists.
C6_DelegateFailure ==
    /\ (log # <<>> /\ LastEvent = Event("delegate", NoPath, FALSE)) =>
          /\ pc = "idle"
          /\ ret.op = "build" => ret.status \in {"failed", "assert"}
          /\ Phase # "Built"
    /\ (ret.op = "build" /\ ret.status = "ok") =>
          /\ log # <<>>
          /\ LastEvent = Event("delegate", NoPath, TRUE)
          /\ \A r \in DOMAIN outDir.outputs : outDir.outputs[r] # 0
    /\ (ret.op = "build" /\ ret.status = "failed") =>
          (log # <<>> /\ LastEvent[3] = FALSE)

\* The delegate has failed after writing some of its results.
C6_Witness ==
    /\ ret = Ret("build", "failed")
    /\ log # <<>>
    /\ LastEvent = Event("delegate", NoPath, FALSE)
    /\ \E r \in DOMAIN outDir.outputs : outDir.outputs[r] # 0

\* needsBuild() as it would answer in the current state.
NB == needsBuild(os, arch, delegate, root, mtime, outDir.outputs, newestInput)

\* C7 (idempotent clean): a clean never errors; after a clean out_dir does
\* not exist, a second clean is possible, succeeds and changes nothing, and
\* needsBuild() answers true.
C7_IdempotentClean ==
    ret.op = "clean" =>
        /\ ret.status = "ok"
        /\ ~outDir.exists
        /\ ENABLED (clean /\ UNCHANGED vars)
        /\ NB.status = "ok"
        /\ NB.needed

\* A clean has removed a finished build.
C7_Witness ==
    /\ ret = Ret("clean", "ok")
    /\ log # <<>>
    /\ LastEvent = Event("delegate", NoPath, TRUE)
    /\ ~outDir.exists

\* C8 (clean recovers from every state): whatever the last build left, the
\* idle task can be cleaned; the clean removes all of out_dir, the task is
\* Unbuilt again and build() gets past its assertion.
C8_CleanRecovers ==
    /\ pc = "idle" =>
          ENABLED (clean /\ outDir' = EmptyOutDir(delegate) /\ ret' = Ret("clean", "ok"))
    /\ ret.op = "clean" =>
          /\ outDir = EmptyOutDir(delegate)
          /\ Phase = "Unbuilt"
          /\ build_guard(outDir)
          /\ ENABLED (build_enter /\ pc' = "extract")

\* A clean after a build killed in the delegate, with results half written.
C8_Witness ==
    /\ ret = Ret("clean", "ok")
    /\ Len(log) >= 3
    /\ LastEvent[1] = "kill"
    /\ outDir = EmptyOutDir(delegate)

SomeOutputMissing == \E r \in DOMAIN outDir.outputs : outDir.outputs[r] = 0

\* C9 (rebuild decision, tier a): needsBuild() answers true whenever a
\* result of the delegate is missing, out_dir existing or not.
C9_MissingOutputNeedsBuild ==
    /\ SomeOutputMissing => (NB.status = "ok" /\ NB.needed)
    /\ (ret.op = "needsBuild" /\ SomeOutputMissing) => (ret.status = "ok" /\ ret.needed)

\* needsBuild() has answered true with one result present and one missing,
\* and no patch to compare with.
C9_Witness ==
    /\ ret.op = "needsBuild"
    /\ ret.needed
    /\ outDir.exists
    /\ SomeOutputMissing
    /\ \E r \in DOMAIN outDir.outputs : outDir.outputs[r] # 0
    /\ patches(root, os, arch) = <<>>


AllOutputsExist == \A r \in DOMAIN outDir.outputs : outDir.outputs[r] # 0

Max(S) == CHOOSE x \in S : \A y \in S : y <= x

\* The modification time of the newest result.
NewestOutputTime == Max({ outDir.outputs[r] : r \in DOMAIN outDir.outputs })

\* The modification time of the newest patch of the resolved set, 0 when
\* the set is empty.
NewestPatchTime ==
    LET ps == patches(root, os, arch)
    IN  Max({0} \cup { mtime[ps[i]] : i \in 1..Len(ps) })

InResolved(p) ==
    LET ps == patches(root, os, arch)
    IN  \E i \in 1..Len(ps) : ps[i] = p

\* The modification time of patch file p is set by this step.
Touched(p) == mtime'[p] # mtime[p]

\* The claim as it is written: any touch of a resolved patch after a finished
\* build makes needsBuild() answer true, whatever time the touch stamps.
C11_AnyTouchInvalidates ==
    [][(Phase = "Built" /\ \E p \in PatchPaths : InResolved(p) /\ Touched(p))
          => NB'.needed]_vars

\* C11 (timestamp invalidation): on a finished build, a touch that gives a
\* patch of the resolved set a modification time later than that of the
\* newest result makes needsBuild() answer true, 'is older than'; a touch
\* that leaves the patch no newer than the newest result does not; a touch
\* of a patch file outside the resolved set leaves the answer as it was.
C11_TimestampInvalidation ==
    [][Phase = "Built" =>
          \A p \in PatchPaths :
              /\ (InResolved(p) /\ Touched(p) /\ mtime'[p] > NewestOutputTime)
                    => (NB'.status = "ok" /\ NB'.needed /\ NB'.reason = "is older than")
              /\ (InResolved(p) /\ Touched(p) /\ mtime'[p] <= NewestOutputTime
                     /\ ~NB.needed)
                    => ~NB'.needed
              /\ (~InResolved(p) /\ Touched(p)) => NB' = NB]_vars

\* On a finished build one patch of the resolved set and one patch file
\* outside it have been touched later than the newest result, and
\* needsBuild() has answered true.
C11_Witness ==
    /\ Phase = "Built"
    /\ ret.op = "needsBuild"
    /\ ret = NB
    /\ ret.needed
    /\ \E p \in PatchPaths : InResolved(p) /\ mtime[p] > NewestOutputTime
    /\ \E p \in FilesOf(root) : ~InResolved(p) /\ mtime[p] > NewestOutputTime


\* The files getArchivableResults() lists.
ArchivableFiles ==
    LET items == getArchivableResults(delegate, TRUE, FALSE).items
    IN  { items[i][1] : i \in 1..Len(items) }

\* C12 (round-trip build): with an empty resolved patch set, once build()
\* has returned normally needsBuild() answers false without an error, and it
\* has answered false whenever it was asked on the finished build; every
\* file getArchivableResults() lists is a result that exists.
C12_RoundTripBuild ==
    patches(root, os, arch) = <<>> =>
        /\ ret = Ret("build", "ok") =>
              /\ NB.status = "ok"
              /\ ~NB.needed
              /\ ArchivableFiles # {}
              /\ \A f \in ArchivableFiles :
                    f \in DOMAIN outDir.outputs /\ outDir.outputs[f] # 0
        /\ (ret.op = "needsBuild" /\ Phase = "Built") =>
              (ret.status = "ok" /\ ~ret.needed)

\* needsBuild() has answered false on a build of the bare sources.
C12_Witness ==
    /\ patches(root, os, arch) = <<>>
    /\ ret.op = "needsBuild"
    /\ ret.status = "ok"
    /\ ~ret.needed
    /\ log = << Event("extract", NoPath, TRUE), Event("delegate", NoPath, TRUE) >>
    /\ \A f \in ArchivableFiles : outDir.outputs[f] # 0


\* Directory d is missing from the patch root.
Missing(d) == d \notin DOMAIN root \/ root[d].kind = "absent"

\* C13 (a missing patch tier is no error): a directory that is missing from
\* the patch root contributes no patch, and the resolver still returns the
\* files of the tiers that are there: common, then the platform directory
\* or, when that is missing, others.  A build whose resolved set is empty
\* goes from the extraction straight to the delegate build.
C13_MissingTier ==
    LET ps == patches(root, os, arch)
    IN  /\ \A d \in {"common", "others", OwnDir} : Missing(d) => FromDir(ps, d) = <<>>
        /\ ps = ListingOf("common")
                  \o (IF Missing(OwnDir) THEN ListingOf("others") ELSE ListingOf(OwnDir))
        /\ (ps = <<>> /\ log # <<>> /\ log[1] = Event("extract", NoPath, TRUE)) =>
              /\ pc \in {"delegate", "idle"}
              /\ outDir.applied = <<>>
              /\ Len(log) <= 2
              /\ Len(log) = 2 => log[2][1] \in {"delegate", "kill"}
              /\ pc = "delegate" <=> Len(log) = 1

\* With all three directories missing the extraction is done and the
\* delegate build is next.
C13_Witness ==
    /\ \A d \in {"common", "others", OwnDir} : Missing(d)
    /\ patches(root, os, arch) = <<>>
    /\ log = << Event("extract", NoPath, TRUE) >>
    /\ pc = "delegate"
    /\ todo = <<>>


\* The directories of the patch root the task's platform key selects from.
OwnTiers == {"common", OwnDir, "others"}

\* C14 (platform key and strategy are fixed): the delegate of a task is the
\* windows project exactly when its OS is windows and the libtool project
\* otherwise; OS, architecture and delegate never change after
\* construction; and every operation works with them: the results in
\* out_dir are those of that delegate, and the patches a build takes up are
\* those of the common, platform or others directory of that one pair.
C14_FixedPlatformAndStrategy ==
    /\ [](/\ delegate = (IF os = "windows" THEN "DefaultNativeProject"
                                            ELSE "LibtoolNativeProject")
          /\ DOMAIN outDir.outputs = ResultSet(delegate)
          /\ \A i \in 1..Len(todo) : todo[i][1] \in OwnTiers
          /\ \A i \in 1..Len(outDir.applied) : outDir.applied[i][1] \in OwnTiers
          /\ \A i \in 1..Len(log) : log[i][1] = "patch" => log[i][2][1] \in OwnTiers)
    /\ [][os' = os /\ arch' = arch /\ delegate' = delegate]_vars

\* On windows a build has applied the patch of windows-amd64 and the windows
\* project has written its library.
C14_Witness ==
    /\ os = "windows"
    /\ delegate = "DefaultNativeProject"
    /\ ret = Ret("build", "ok")
    /\ outDir.applied = << <<"windows-amd64", 1>> >>
    /\ outDir.outputs[<<"amd64", "ffi.lib">>] # 0


\* C15 (uniform result contract): what getArchivableResults() of the project
\* returns is, item for item and in the same order, what the delegate's
\* getArchivableResults() returns for the same arguments, and it ends the
\* same way; libs and include_dirs of the project are the delegate's.  Every
\* item pairs a result file of the delegate with its path in the archive,
\* which is the path below the output directory or the basename.
C15_UniformResultContract ==
    ret.op = "getArchivableResults" =>
        LET y == delegate_getArchivableResults(delegate, archived.args[1], archived.args[2])
        IN  /\ archived.items = y.items
            /\ archived.status = y.status
            /\ ret.status = y.status
            /\ \A i \in 1..Len(archived.items) :
                  /\ Len(archived.items[i]) = 2
                  /\ archived.items[i][1] \in ResultSet(delegate)
                  /\ archived.items[i][2] \in {archived.items[i][1],
                                               basename(archived.items[i][1])}
            /\ libs(delegate) = delegate_libs(delegate)
            /\ include_dirs(delegate) = delegate_include_dirs(delegate)

\* The libtool project has been asked for its single result, which is the
\* library under its basename.
C15_Witness ==
    /\ ret = Ret("getArchivableResults", "ok")
    /\ delegate = "LibtoolNativeProject"
    /\ archived.args = <<TRUE, TRUE>>
    /\ archived.items = << << <<".libs", "libffi.a">>, <<"", "libffi.a">> >> >>


\* The state of task t, with its working directory, whether it is running
\* or parked.
stateOf(t) == IF cur = t THEN running ELSE parked

\* C16 (task isolation): of two tasks with their own working directories,
\* a step of the one that is running - in needsBuild, build or clean -
\* changes nothing of the other, neither its working directory nor its call
\* in flight; letting the other task run changes neither task; and every
\* step a task takes beside the other is a step it takes when it runs
\* alone.
C16_TaskIsolation ==
    [][/\ \A t \in {1, 2} : (cur # t \/ cur' # cur) => stateOf(t)' = stateOf(t)
       /\ cur' = cur => (parked' = parked /\ Next)]_vars

\* Task 2 has built and cleaned its directory while task 1 stands in the
\* middle of a build, its extracted tree in place.
C16_Witness ==
    /\ cur = 2
    /\ parked.pc = "delegate"
    /\ parked.outDir.exists
    /\ parked.outDir.tree = "full"
    /\ ret = Ret("clean", "ok")
    /\ log # <<>>
    /\ LastEvent = Event("delegate", NoPath, TRUE)
    /\ ~outDir.exists


\* The source archive and everything below the patch root: which files
\* exist, what order they are listed in, and their modification times.
inputs == <<root, mtime, srcTime>>

\* C17 (the inputs are read-only): no step of needsBuild(), build() or
\* clean() - a step that moves the task's call, its log, its answer or its
\* out_dir - changes or removes the source archive or a file of the patch
\* root.
C17_InputsReadOnly ==
    [][(running' # running) => (inputs' = inputs)]_vars

\* A build has applied patches and needsBuild() has been asked, and the
\* source archive and the patch files are as they were at the start.
C17_Witness ==
    /\ ret.op = "needsBuild"
    /\ log # <<>>
    /\ LastEvent = Event("delegate", NoPath, TRUE)
    /\ outDir.applied # <<>>
    /\ srcTime = 1
    /\ \A p \in PatchPaths : mtime[p] = (IF p \in FilesOf(root) THEN 1 ELSE 0)


\* The positions of log that hold a step of the given kind.
StepsOf(kind) == { i \in 1..Len(log) : log[i][1] = kind }

\* C18 (no retry inside build): among the steps of one build() call there
\* is at most one extraction, at most one application of each patch and at
\* most one delegate build; a step that fails, or is cut short, is the last
\* step of the call: the call has ended and nothing was run after it.
C18_NoInternalRetry ==
    /\ Cardinality(StepsOf("extract")) <= 1
    /\ Cardinality(StepsOf("delegate")) <= 1
    /\ \A i, j \in StepsOf("patch") : log[i][2] = log[j][2] => i = j
    /\ \A i \in 1..Len(log) :
          log[i][3] = FALSE =>
              /\ i = Len(log)
              /\ pc = "idle"
              /\ todo = <<>>
              /\ ret.op = "build" => ret.status \in {"failed", "killed", "assert"}

\* The delegate build has failed after the extraction and two patches, and
\* the call has ended there.
C18_Witness ==
    /\ ret = Ret("build", "failed")
    /\ Len(log) = 4
    /\ Cardinality(StepsOf("patch")) = 2
    /\ LastEvent = Event("delegate", NoPath, FALSE)
    /\ pc = "idle"


\* a is the beginning of b.
IsPrefix(a, b) == Len(a) <= Len(b) /\ a = SubSeq(b, 1, Len(a))

\* C19 (only clean destroys the working directory): a step that is not a
\* clean removes nothing of out_dir - the directory, its tree, the patches
\* applied to it and every result that exists stay - so a build that fails
\* in the extraction, in a patch or in the delegate leaves what it wrote;
\* needsBuild() and a build() stopped by its assertion leave out_dir exactly
\* as it is.
C19_OnlyCleanDestroys ==
    [][~CleanCalled =>
          /\ outDir.exists => outDir'.exists
          /\ outDir.tree # "none" => outDir'.tree # "none"
          /\ IsPrefix(outDir.applied, outDir'.applied)
          /\ \A r \in DOMAIN outDir.outputs :
                outDir.outputs[r] # 0 => outDir'.outputs[r] # 0
          /\ (pc = "idle" /\ ret'.op = "needsBuild") => outDir' = outDir
          /\ (pc = "idle" /\ ret'.status = "assert") => outDir' = outDir]_vars

\* A build has been stopped by its assertion over the partly written tree a
\* failed extraction left, and the tree is still there.
C19_Witness ==
    /\ ret = Ret("build", "assert")
    /\ log = << Event("extract", NoPath, FALSE) >>
    /\ outDir.exists
    /\ outDir.tree = "partial"


\* The resolved patch set, read off the patch root: the files of common,
\* then those of the platform directory or, when it is missing, of others.
ResolvedSet ==
    ListingOf("common") \o (IF Missing(OwnDir) THEN ListingOf("others") ELSE ListingOf(OwnDir))

\* The patches the build() call of log has applied, in the order of their
\* application.
AppliedInLog ==
    LET done == SelectSeq(log, LAMBDA e : e[1] = "patch" /\ e[3])
    IN  [i \in 1..Len(done) |-> done[i][2]]

\* How often patch file p occurs in seq.
Occurrences(seq, p) == Cardinality({ i \in 1..Len(seq) : seq[i] = p })

\* C20 (each patch exactly once): when a build() call has come to the
\* delegate build, every file of the resolved set has been applied exactly
\* once and no other file has been applied, in the call's steps and in
\* out_dir alike; between two operations the task keeps no list of patches.
C20_EachPatchOnce ==
    /\ (pc = "delegate" \/ StepsOf("delegate") # {}) =>
          /\ \A p \in PatchPaths :
                Occurrences(AppliedInLog, p) = Occurrences(ResolvedSet, p)
          /\ \A p \in PatchPaths : Occurrences(ResolvedSet, p) <= 1
          /\ AppliedInLog = ResolvedSet
    /\ (outDir.exists /\ (pc = "delegate" \/ StepsOf("delegate") # {})) =>
          outDir.applied = ResolvedSet
    /\ pc = "idle" => todo = <<>>

\* A build has come to the delegate build with two patches, each applied
\* once.
C20_Witness ==
    /\ pc = "delegate"
    /\ Len(ResolvedSet) = 2
    /\ outDir.applied = ResolvedSet
    /\ todo = <<>>
    /\ Len(log) = 3


\* A step of the task that is a needsBuild() call: the task is idle, the
\* answer is one of needsBuild, and the environment does not move.
NeedsBuildCalled == pc = "idle" /\ ret'.op = "needsBuild" /\ env' = env /\ cur' = cur

\* The answer read off the files alone: a build is needed when a result is
\* missing, or when the newest result is older than the newest patch of the
\* resolved set.
FilesNeedBuild == ~AllOutputsExist \/ NewestOutputTime < NewestPatchTime

FilesReason ==
    IF ~AllOutputsExist THEN "None"
    ELSE IF NewestOutputTime < NewestPatchTime THEN "is older than"
    ELSE "all files are up to date"

\* C21 (the filesystem is the only build state): the answer of a
\* needsBuild() call is a function of the files - which results exist, their
\* modification times and those of the patches of the resolved set - and of
\* the task's configuration; what the task did before, how its last call
\* ended and what it answered last play no part, so the same files reached
\* by different histories get the same answer.
C21_FilesystemOnlyState ==
    [][NeedsBuildCalled =>
          ret' = [op |-> "needsBuild", status |-> "ok",
                  needed |-> FilesNeedBuild, reason |-> FilesReason]]_vars

\* needsBuild() has answered true over an out_dir that is as it was at the
\* start, after a build that ran to its end and a clean.
C21_Witness ==
    /\ ret.op = "needsBuild"
    /\ ret = NB
    /\ ret.needed
    /\ outDir = EmptyOutDir(delegate)
    /\ log # <<>>
    /\ LastEvent = Event("delegate", NoPath, TRUE)
    /\ outDir.applied = <<>>
    /\ Len(log) >= 3


\* C22 (result mapping of the libtool delegate): when the generator is run
\* to its end without single, it yields one item for every result of the
\* project, in the project's order and with the project's file path; a
\* result whose directory is .libs is archived under its basename, every
\* other result under the archive path the underlying project gives it.
C22_LibtoolResultMapping ==
    (ret.op = "getArchivableResults" /\ delegate = "LibtoolNativeProject"
       /\ ~archived.args[2]) =>
        LET under == native_getArchivableResults(LibtoolResults, archived.args[1])
        IN  /\ archived.status = "ok"
            /\ Len(archived.items) = Len(LibtoolResults)
            /\ \A i \in 1..Len(LibtoolResults) :
                  /\ archived.items[i][1] = LibtoolResults[i]
                  /\ LibtoolResults[i][1] = ".libs"
                        => archived.items[i][2] = <<"", LibtoolResults[i][2]>>
                  /\ LibtoolResults[i][1] # ".libs"
                        => archived.items[i][2] = under[i][2]

\* All results have been asked for with their paths below the output
\* directory: the library has lost .libs, the headers have kept include.
C22_Witness ==
    /\ ret = Ret("getArchivableResults", "ok")
    /\ archived.args = <<TRUE, FALSE>>
    /\ archived.items = << << <<".libs", "libffi.a">>, <<"", "libffi.a">> >>,
                           << <<"include", "ffi.h">>, <<"include", "ffi.h">> >>,
                           << <<"include", "ffitarget.h">>, <<"include", "ffitarget.h">> >> >>


\* The elements of a sequence.
Range(seq) == { seq[i] : i \in 1..Len(seq) }

\* C23 (configure flag set): on every OS other than windows the configure
\* arguments hold --disable-dependency-tracking, --disable-shared and
\* --with-pic, and one CFLAGS setting, which holds -m64 exactly when the OS
\* is solaris.
C23_ConfigureFlags ==
    (ret.op = "buildEnv" /\ os # "windows") =>
        /\ { Flag("--disable-dependency-tracking"), Flag("--disable-shared"),
             Flag("--with-pic") } \subseteq Range(archived.items)
        /\ Cardinality({ i \in 1..Len(archived.items) :
                            archived.items[i].flag = "CFLAGS" }) = 1
        /\ \A i \in 1..Len(archived.items) :
              archived.items[i].flag = "CFLAGS" =>
                  ("-m64" \in Range(archived.items[i].value) <=> os = "solaris")

\* The configure arguments have been read on solaris, with -m64 among the
\* compiler flags.
C23_Witness ==
    /\ ret = Ret("buildEnv", "ok")
    /\ os = "solaris"
    /\ Setting("CFLAGS", <<"-g", "-O3", "-m64">>) \in Range(archived.items)
    /\ Flag("--with-pic") \in Range(archived.items)


\* The claim as it is written, in the case of a build() that follows a
\* build() with no clean between them: the second call is stopped by the
\* assertion, however the first one ended.
C24_BuildAfterBuildRejected ==
    [][(BuildCalled /\ ret.op = "build") => ret'.status = "assert"]_vars

\* C24 (a build needs a clean directory): build() is stopped by its
\* assertion exactly when out_dir exists.  out_dir exists while a build is
\* in its patches or in the delegate, after a build that returned normally,
\* and whenever needsBuild() has answered 'is older than'; it stays until a
\* clean, so build() after a finished build, or after a patch was touched,
\* fails until clean() is called.  A build that failed in the extraction
\* before anything was written leaves no out_dir, and the next build() is
\* not stopped.
C24_BuildNeedsCleanDir ==
    /\ [](/\ pc \in {"patch", "delegate"} => outDir.exists
          /\ (ret.op = "build" /\ ret.status = "ok") => outDir.exists
          /\ (ret.op = "needsBuild" /\ ret.reason = "is older than") => outDir.exists
          /\ Phase # "Unbuilt" => outDir.exists)
    /\ [][/\ BuildCalled => (ret'.status = "assert" <=> outDir.exists)
          /\ (outDir.exists /\ ~CleanCalled) => outDir'.exists]_vars

\* On a finished build a patch has been touched, so that needsBuild()
\* answers true, and build() has been stopped by its assertion.
C24_Witness ==
    /\ ret = Ret("build", "assert")
    /\ Phase = "Built"
    /\ NB.needed
    /\ NB.reason = "is older than"


\* The inherited check on the current state.
Generic == generic_needsBuild(newestInput, newestOutput(delegate, outDir.outputs))

\* The modification times, with every patch file that exists set to t.
Retimed(t) == [p \in PatchPaths |-> IF mtime[p] = 0 THEN 0 ELSE t]

\* C25 (the inherited check comes first): when the inherited check says a
\* build is needed, needsBuild() answers true with the reason of that check,
\* whatever the modification times of the patches are; needsBuild() never
\* answers false where the inherited check says needed; and with an empty
\* resolved set it answers what the inherited check answers.
C25_GenericCheckFirst ==
    /\ Generic.needed =>
          /\ NB.status = "ok"
          /\ NB.needed
          /\ NB.reason = Generic.reason
          /\ \A t \in 1..MaxTime :
                needsBuild(os, arch, delegate, root, Retimed(t), outDir.outputs,
                           newestInput) = NB
    /\ ~Generic.needed => (NB.needed <=> NB.reason = "is older than")
    /\ patches(root, os, arch) = <<>> =>
          (NB.status = "ok" /\ NB.needed = Generic.needed)

\* With one result missing and a patch newer than the results that exist,
\* needsBuild() has answered true with the reason of the inherited check.
C25_Witness ==
    /\ ret.op = "needsBuild"
    /\ ret = NB
    /\ ret.needed
    /\ ret.reason = Generic.reason
    /\ Generic.needed
    /\ \E r \in DOMAIN outDir.outputs : outDir.outputs[r] # 0
    /\ NewestPatchTime > NewestOutputTime


\* The platform directory is there but holds no patch: it is an empty
\* directory, or a file.
OwnDirHollow ==
    /\ OwnDir \in DOMAIN root
    /\ root[OwnDir] \in {NotDir, Dir(<<>>)}

\* C26 (a hollow platform directory still wins): when the platform
\* directory exists as an empty directory, or as something that is no
\* directory, the sequence read from the patches property is the files of
\* common and nothing else, whatever others holds.
C26_HollowPlatformDir ==
    (ret.op = "patches" /\ OwnDirHollow) =>
        /\ resolved = ListingOf("common")
        /\ FromDir(resolved, "others") = <<>>

\* The platform directory is a plain file, others holds two patches, and
\* the resolver has returned the one patch of common.
C26_Witness ==
    /\ ret = Ret("patches", "ok")
    /\ OwnDir \in DOMAIN root
    /\ root[OwnDir] = NotDir
    /\ Len(ListingOf("others")) = 2
    /\ resolved = << <<"common", 1>> >>


\* The task's own newestOutput() on the current state.
Output == newestOutput(delegate, outDir.outputs)

\* C27 (no comparison with a missing output): in every state needsBuild()
\* gives an answer and does not fail; whenever the inherited check does not
\* ask for a build, so that the comparison with the newest patch is reached,
\* newestOutput() is a file that exists; and an answer that was given was
\* no failure.
C27_NoMissingOutputCompared ==
    /\ NB.status = "ok"
    /\ NB.needed \in BOOLEAN
    /\ NB.reason \in {"None", "is older than", "all files are up to date"}
    /\ ~Generic.needed =>
          /\ Output.kind = "file"
          /\ Output.path \in DOMAIN outDir.outputs
          /\ outDir.outputs[Output.path] # 0
          /\ Output.timestamp = outDir.outputs[Output.path]
    /\ ret.op = "needsBuild" => ret.status = "ok"

\* needsBuild() has answered true, without failing, where a delegate build
\* has failed with no result written and a patch is there to compare with.
C27_Witness ==
    /\ ret.op = "needsBuild"
    /\ ret = NB
    /\ ret.status = "ok"
    /\ ret.needed
    /\ log # <<>>
    /\ LastEvent = Event("delegate", NoPath, FALSE)
    /\ \A r \in DOMAIN outDir.outputs : outDir.outputs[r] = 0
    /\ patches(root, os, arch) # <<>>


\* What the delegate's task reports as its newest output.
DelegateOutput == delegate_newestOutput(delegate, outDir.outputs)

\* C28 (newestOutput is nothing or a file that exists): the task's
\* newestOutput() is None or a result that exists in out_dir; it is None
\* when the delegate reports nothing or a file that does not exist, and the
\* delegate's answer otherwise.
C28_NewestOutputExists ==
    /\ Output.kind = "none"
          \/ (Output.path \in DOMAIN outDir.outputs /\ outDir.outputs[Output.path] # 0)
    /\ DelegateOutput.kind = "none" => Output = NoTS
    /\ (DelegateOutput.kind = "file" /\ outDir.outputs[DelegateOutput.path] = 0)
          => Output = NoTS
    /\ (DelegateOutput.kind = "file" /\ outDir.outputs[DelegateOutput.path] # 0)
          => Output = DelegateOutput

\* After a delegate build that failed with some results written, the
\* delegate reports a result that is missing and the task reports none.
C28_Witness ==
    /\ ret = Ret("build", "failed")
    /\ DelegateOutput.kind = "file"
    /\ outDir.outputs[DelegateOutput.path] = 0
    /\ Output = NoTS
    /\ \E r \in DOMAIN outDir.outputs : outDir.outputs[r] # 0


\* C29 (needsBuild is read-only): a call of needsBuild() leaves out_dir, the
\* patches, the sources and the task as they were, so the answer a further
\* call would give is the answer just given; a call made while the last
\* answer still fits the files repeats that answer.
C29_NeedsBuildReadOnly ==
    [][NeedsBuildCalled =>
          /\ outDir' = outDir
          /\ inputs' = inputs
          /\ <<config, pc, todo, log, parked, cur>>' = <<config, pc, todo, log, parked, cur>>
          /\ ret' = NB
          /\ NB' = NB
          /\ (ret.op = "needsBuild" /\ ret = NB) => ret' = ret]_vars

\* needsBuild() has asked for a build over an out_dir that holds a patched
\* tree and some but not all results, and all of it is still there.
C29_Witness ==
    /\ ret.op = "needsBuild"
    /\ ret = NB
    /\ ret.needed
    /\ outDir.exists
    /\ outDir.applied # <<>>
    /\ SomeOutputMissing
    /\ \E r \in DOMAIN outDir.outputs : outDir.outputs[r] # 0


\* A query of the libtool delegate for a single result: the generator
\* called with single, or the property libs.
SingleQueried ==
    /\ delegate = "LibtoolNativeProject"
    /\ \/ ret.op = "getArchivableResults" /\ archived.args[2]
       \/ ret.op = "libs"

\* The file paths a query has handed out.
FilePaths ==
    IF ret.op = "libs" THEN archived.items
    ELSE [i \in 1..Len(archived.items) |-> archived.items[i][1]]

\* C30 as stated (the assertion is enforced for every caller of the
\* single-result form, the property libs included): every query for a single
\* result hands out the first result alone, from .libs, and has gone through
\* the assertion.
C30_AssertionForEveryCaller ==
    SingleQueried =>
        /\ FilePaths = << LibtoolResults[1] >>
        /\ FilePaths[1][1] = ".libs"
        /\ archived.status = "ok"

\* C30 (single-result query of the libtool delegate): a query for a single
\* result hands out the first result of the project alone, and that result
\* is in .libs; the generator run to its end with single has gone through
\* the assertion and ended normally, while the property libs takes one item
\* and leaves the generator at its yield, before the assertion.
C30_SingleResultQuery ==
    SingleQueried =>
        /\ FilePaths = << LibtoolResults[1] >>
        /\ FilePaths[1][1] = ".libs"
        /\ ret.op = "getArchivableResults" =>
              /\ archived.status = "ok"
              /\ archived.items[1][2] = <<"", LibtoolResults[1][2]>>
        /\ ret.op = "libs" => archived.status = "suspended"

\* The generator has been run to its end with single and has yielded the
\* library alone.
C30_Witness ==
    /\ delegate = "LibtoolNativeProject"
    /\ ret = Ret("getArchivableResults", "ok")
    /\ archived.args[2]
    /\ archived.items = << << <<".libs", "libffi.a">>, <<"", "libffi.a">> >> >>

====
